---- MODULE Spec2Model ----
(***************************************************************************)
(* Model of the entity index rebuild of entities/extract_entities.py:      *)
(* the mention filter, the per-field counting, the per-story aggregation,  *)
(* identity resolution, count accumulation and the write of the entity and *)
(* story_entity tables to the DuckDB store.                                *)
(*                                                                         *)
(* A text is a sequence of one-character strings.  The NER capability      *)
(* nlp(text) is a fixed function of the text, so a text field of a story   *)
(* is represented by the mentions nlp returns for it (doc.ents), each a    *)
(* record [text, label_].  Scores are whole multiples of the float weights *)
(* 4.0, 3.0, 2.0 and are kept as integers.                                 *)
(***************************************************************************)
EXTENDS Integers, Sequences, FiniteSets, TLC

VARIABLES
    story,              \* table story: story[id] is the row with that id
    entity,             \* table entity in the store: [exists, rows]
    story_entity,       \* table story_entity in the store: [exists, rows]
    pc,                 \* position of main()
    stories_df,         \* result of get_stories: sequence of story ids, ordered
    pos,                \* number of rows of stories_df the loop has consumed
    entity_dict,        \* insertion-ordered dict (name, type) -> entity_id
    next_entity_id,
    entity_counts,      \* insertion-ordered dict (name, type) -> count
    story_entity_rows,  \* list of relation rows
    entities_json,      \* file entities.json written by make_entities_json
    builds,             \* history: the last builds that completed, oldest first
    story_web,          \* table story, the columns source_url, authors, image, errors
    enrich_run,         \* enrich.py: position of main, its list of stories, its last update
    fetch               \* PostScraper.fetch_post_page: one call, with a log of its attempts

vars == <<story, entity, story_entity, pc, stories_df, pos, entity_dict,
          next_entity_id, entity_counts, story_entity_rows, entities_json, builds,
          story_web, enrich_run, fetch>>

\* what extract_entities.py neither reads nor writes
aux == <<entities_json, builds, story_web, enrich_run, fetch>>

\* what only enrich.py and post_scraper.py write
web == <<story_web, enrich_run, fetch>>

mem == <<stories_df, pos, entity_dict, next_entity_id, entity_counts, story_entity_rows>>

(***************************************************************************)
(* Bounds of the model.                                                    *)
(***************************************************************************)
\* number of rows of the story table
MaxStories == 2
\* number of mentions nlp recognizes in the whole corpus (Spec)
MaxMentions == 3
\* number of mentions nlp recognizes in the single story of SpecDoc
MaxDocMentions == 4

(***************************************************************************)
(* Configuration of the program.                                           *)
(***************************************************************************)
FIELDS == <<"item_what_happened", "item_section", "item_why_it_matters", "title", "body">>

FIELD_WEIGHTS ==
    [item_what_happened |-> 4, item_section |-> 3, item_why_it_matters |-> 3,
     title |-> 2, body |-> 2]

MAX_APPEARANCES == 3

\* spaCy labels that are kept, and the type each maps to
ENTITY_TYPES ==
    [PERSON |-> "person", ORG |-> "organization", GPE |-> "location",
     PRODUCT |-> "product", EVENT |-> "event"]

FALSE_POSITIVES == {
    <<"t","h","e">>, <<"a">>, <<"a","n">>, <<"a","n","d">>, <<"o","r">>, <<"b","u","t">>,
    <<"i","n">>, <<"o","n">>, <<"a","t">>, <<"t","o">>, <<"f","o","r">>, <<"o","f">>,
    <<"w","i","t","h">>, <<"b","y">>, <<"f","r","o","m">>, <<"a","s">>, <<"i","s">>,
    <<"w","a","s">>, <<"a","r","e">>, <<"w","e","r","e">>, <<"b","e">>, <<"b","e","e","n">>,
    <<"h","a","v","e">>, <<"h","a","s">>, <<"h","a","d">>, <<"d","o">>, <<"d","o","e","s">>,
    <<"d","i","d">>, <<"w","i","l","l">>, <<"w","o","u","l","d">>, <<"c","o","u","l","d">>,
    <<"s","h","o","u","l","d">>, <<"m","a","y">>, <<"m","i","g","h","t">>, <<"m","u","s","t">>,
    <<"c","a","n">>, <<"t","h","i","s">>, <<"t","h","a","t">>, <<"t","h","e","s","e">>,
    <<"t","h","o","s","e">>, <<"i","t">>, <<"i","t","s">>, <<"t","h","e","y">>,
    <<"t","h","e","m">>, <<"t","h","e","i","r">>, <<"t","h","e","r","e">>, <<"h","e","r","e">>,
    <<"w","h","e","r","e">>, <<"w","h","e","n">>, <<"w","h","a","t">>, <<"w","h","o">>,
    <<"w","h","i","c","h">>, <<"h","o","w">>, <<"w","h","y">>, <<"t","o","d","a","y">>,
    <<"y","e","s","t","e","r","d","a","y">>, <<"t","o","m","o","r","r","o","w">>,
    <<"n","o","w">>, <<"t","h","e","n">>, <<"a","g","o">>, <<"l","a","t","e","r">>,
    <<"M","o","n","d","a","y">>, <<"T","u","e","s","d","a","y">>,
    <<"W","e","d","n","e","s","d","a","y">>, <<"T","h","u","r","s","d","a","y">>,
    <<"F","r","i","d","a","y">>, <<"S","a","t","u","r","d","a","y">>,
    <<"S","u","n","d","a","y">>, <<"J","a","n","u","a","r","y">>,
    <<"F","e","b","r","u","a","r","y">>, <<"M","a","r","c","h">>, <<"A","p","r","i","l">>,
    <<"M","a","y">>, <<"J","u","n","e">>, <<"J","u","l","y">>, <<"A","u","g","u","s","t">>,
    <<"S","e","p","t","e","m","b","e","r">>, <<"O","c","t","o","b","e","r">>,
    <<"N","o","v","e","m","b","e","r">>, <<"D","e","c","e","m","b","e","r">>
}

\* the short acronyms is_valid_entity compares the lowercased text with
SHORT_ACRONYMS == { <<"U","S">>, <<"U","K">>, <<"E","U">>, <<"U","N">> }

(***************************************************************************)
(* Python str operations on texts.                                         *)
(***************************************************************************)
UPPER == <<"A","B","C","D","E","F","G","H","I","J","K","L","M",
           "N","O","P","Q","R","S","T","U","V","W","X","Y","Z">>
LOWER == <<"a","b","c","d","e","f","g","h","i","j","k","l","m",
           "n","o","p","q","r","s","t","u","v","w","x","y","z">>
DIGITS == {"0","1","2","3","4","5","6","7","8","9"}
WHITESPACE == {" ", "\t", "\n"}

isupper(c) == \E i \in DOMAIN UPPER : UPPER[i] = c

lower_char(c) ==
    IF isupper(c) THEN LOWER[CHOOSE i \in DOMAIN UPPER : UPPER[i] = c] ELSE c

lower(text) == [i \in 1..Len(text) |-> lower_char(text[i])]

RECURSIVE lstrip(_)
lstrip(text) ==
    IF text # <<>> /\ Head(text) \in WHITESPACE THEN lstrip(Tail(text)) ELSE text

RECURSIVE rstrip(_)
rstrip(text) ==
    IF text # <<>> /\ text[Len(text)] \in WHITESPACE
    THEN rstrip(SubSeq(text, 1, Len(text) - 1))
    ELSE text

\* a strip that takes one trailing whitespace character only
strip_trailing_once(text) ==
    LET t == lstrip(text)
    IN  IF t # <<>> /\ t[Len(t)] \in WHITESPACE THEN SubSeq(t, 1, Len(t) - 1) ELSE t

strip(text) == rstrip(lstrip(text))

\* text.replace(c, '')
remove(text, c) == SelectSeq(text, LAMBDA x : x # c)

isdigit(text) == text # <<>> /\ \A i \in 1..Len(text) : text[i] \in DIGITS

(***************************************************************************)
(* is_valid_entity: the quality filter on a mention text.                  *)
(***************************************************************************)
is_valid_entity(text) ==
    IF text = <<>> \/ Len(text) < 2 THEN FALSE
    ELSE IF ~isupper(text[1]) THEN FALSE
    ELSE IF strip(lower(text)) \in FALSE_POSITIVES THEN FALSE
    ELSE IF isdigit(remove(remove(remove(text, " "), "-"), "'")) THEN FALSE
    ELSE IF Len(text) <= 2 /\ lower(text) \notin SHORT_ACRONYMS THEN FALSE
    ELSE TRUE

(***************************************************************************)
(* Insertion-ordered dicts are sequences of [key, val] items.              *)
(***************************************************************************)
Has(d, k) == \E i \in 1..Len(d) : d[i].key = k

Get(d, k) == d[CHOOSE i \in 1..Len(d) : d[i].key = k].val

Put(d, k, v) ==
    IF Has(d, k)
    THEN [i \in 1..Len(d) |-> IF d[i].key = k THEN [key |-> k, val |-> v] ELSE d[i]]
    ELSE Append(d, [key |-> k, val |-> v])

(***************************************************************************)
(* extract_entities_from_text: dict entity text -> (entity_type, count).   *)
(* A field is [kind, ents]: kind "null" (NULL), "empty" ('') or "text",    *)
(* and ents is doc.ents of nlp(text).                                      *)
(***************************************************************************)
\* variant: ENTITY_TYPES.get(ent.label_, 'other') in place of the test
\* "ent.label_ in ENTITY_TYPES"
add_entity_any_label(entities, ent) ==
    LET entity_text == strip(ent.text)
    IN  IF is_valid_entity(entity_text)
        THEN IF Has(entities, entity_text)
             THEN LET old == Get(entities, entity_text)
                  IN  Put(entities, entity_text,
                          [type |-> old.type, count |-> old.count + 1])
             ELSE Put(entities, entity_text,
                      [type |-> IF ent.label_ \in DOMAIN ENTITY_TYPES
                                THEN ENTITY_TYPES[ent.label_] ELSE "other",
                       count |-> 1])
        ELSE entities

add_entity(entities, ent) ==
    IF ent.label_ \in DOMAIN ENTITY_TYPES
    THEN LET entity_text == strip(ent.text)
         IN  IF is_valid_entity(entity_text)
             THEN IF Has(entities, entity_text)
                  THEN LET old == Get(entities, entity_text)
                       IN  Put(entities, entity_text,
                               [type |-> old.type, count |-> old.count + 1])
                  ELSE Put(entities, entity_text,
                           [type |-> ENTITY_TYPES[ent.label_], count |-> 1])
             ELSE entities
    ELSE entities

RECURSIVE count_entities(_, _)
count_entities(entities, ents) ==
    IF ents = <<>> THEN entities
    ELSE count_entities(add_entity(entities, Head(ents)), Tail(ents))

extract_entities_from_text(field) ==
    IF field.kind # "text" THEN <<>> ELSE count_entities(<<>>, field.ents)

(***************************************************************************)
(* extract_entities, one iteration of the loop over stories_df.            *)
(***************************************************************************)
FLAG == [item_what_happened |-> "in_item_what_happened",
         item_section |-> "in_item_section",
         item_why_it_matters |-> "in_item_why_it_matters",
         title |-> "in_title",
         body |-> "in_body"]

init_entity_flags ==
    [in_item_what_happened |-> FALSE, in_item_section |-> FALSE,
     in_item_why_it_matters |-> FALSE, in_title |-> FALSE, in_body |-> FALSE,
     score |-> 0]

min(a, b) == IF a < b THEN a ELSE b

\* variant: the weight times the count, without the cap
field_score_uncapped(f, count) == FIELD_WEIGHTS[f] * count

\* the contribution of one field for an entity counted count times in it
field_score(f, count) == FIELD_WEIGHTS[f] * min(count, MAX_APPEARANCES)

\* one "Process <field>" loop: entities is the field's dict, consumed in order
RECURSIVE process_field(_, _, _)
process_field(story_entities, f, entities) ==
    IF entities = <<>> THEN story_entities
    ELSE LET item  == Head(entities)
             key   == <<item.key, item.val.type>>
             flags == IF Has(story_entities, key) THEN Get(story_entities, key)
                      ELSE init_entity_flags
             new   == [flags EXCEPT ![FLAG[f]] = TRUE,
                                    !.score = @ + field_score(f, item.val.count)]
         IN  process_field(Put(story_entities, key, new), f, Tail(entities))

\* the five fields of one row, in the order the code processes them
RECURSIVE process_fields(_, _, _)
process_fields(story_entities, row, i) ==
    IF i > Len(FIELDS) THEN story_entities
    ELSE LET f        == FIELDS[i]
             entities == IF row[f].kind # "null"
                         THEN extract_entities_from_text(row[f])
                         ELSE <<>>
         IN  process_fields(process_field(story_entities, f, entities), row, i + 1)

\* variant: a fresh story_entities per field, the five results concatenated
RECURSIVE fields_unmerged(_, _)
fields_unmerged(row, i) ==
    IF i > Len(FIELDS) THEN <<>>
    ELSE LET one == [f \in DOMAIN row |-> IF f = FIELDS[i] THEN row[f] ELSE
                                              [kind |-> "null", ents |-> <<>>]]
         IN  process_fields(<<>>, one, 1) \o fields_unmerged(row, i + 1)

aggregate_story_unmerged(row) == fields_unmerged(row, 1)

\* variant: a row, with no flag and score 0, for every entity of entity_dict
\* that the story does not mention
aggregate_story_with_absent(row) ==
    LET own  == process_fields(<<>>, row, 1)
        rest == SelectSeq(entity_dict, LAMBDA x : ~Has(own, x.key))
    IN  own \o [i \in 1..Len(rest) |-> [key |-> rest[i].key, val |-> init_entity_flags]]

\* variant: story_entities is created before the loop over the stories, so a
\* story starts from what the story before it left
aggregate_story_carried(row) ==
    LET last == IF story_entity_rows = <<>> THEN 0
                ELSE story_entity_rows[Len(story_entity_rows)].story_id
        rs   == SelectSeq(story_entity_rows, LAMBDA r : r.story_id = last)
        left == [i \in 1..Len(rs) |->
                    [key |-> entity_dict[CHOOSE j \in 1..Len(entity_dict) :
                                            entity_dict[j].val = rs[i].entity_id].key,
                     val |-> [in_item_what_happened |-> rs[i].in_item_what_happened,
                              in_item_section |-> rs[i].in_item_section,
                              in_item_why_it_matters |-> rs[i].in_item_why_it_matters,
                              in_title |-> rs[i].in_title,
                              in_body |-> rs[i].in_body,
                              score |-> rs[i].score]]]
    IN  process_fields(left, row, 1)

\* story_entities of one row once the five "Process <field>" loops have run
aggregate_story(row) == process_fields(<<>>, row, 1)

\* variant: entity_counts[key] = 1, the earlier stories forgotten
increment_count_forgetful(counts, key) == Put(counts, key, 1)

\* entity_counts[key] += 1 on a defaultdict(int)
increment_count(counts, key) ==
    Put(counts, key, (IF Has(counts, key) THEN Get(counts, key) ELSE 0) + 1)

\* variant: next_entity_id += 1 outside the "if new" block
advance_always(isnew, id) == id + 1

\* next_entity_id after the "Assign entity_id if new" block
advance_entity_id(isnew, id) == IF isnew THEN id + 1 ELSE id

\* variant: the relation row is appended inside the "if key not in entity_dict"
\* block, so only the story that brings a new entity gets its row
RECURSIVE resolve_rows_for_new(_, _, _)
resolve_rows_for_new(st, story_id, items) ==
    IF items = <<>> THEN st
    ELSE LET key   == Head(items).key
             flags == Head(items).val
             isnew == ~Has(st.entity_dict, key)
             dict  == IF isnew THEN Put(st.entity_dict, key, st.next_entity_id)
                      ELSE st.entity_dict
             r     == [story_id |-> story_id,
                       entity_id |-> Get(dict, key),
                       score |-> flags.score,
                       in_item_what_happened |-> flags.in_item_what_happened,
                       in_item_section |-> flags.in_item_section,
                       in_item_why_it_matters |-> flags.in_item_why_it_matters,
                       in_title |-> flags.in_title,
                       in_body |-> flags.in_body]
         IN  resolve_rows_for_new(
                     [entity_dict |-> dict,
                      next_entity_id |-> advance_entity_id(isnew, st.next_entity_id),
                      entity_counts |-> increment_count(st.entity_counts, key),
                      story_entity_rows |-> IF isnew THEN Append(st.story_entity_rows, r)
                                            ELSE st.story_entity_rows],
                     story_id, Tail(items))

\* "Add to entity_dict and story_entity_rows": st is the record of the four
\* accumulators, items the remaining items of story_entities
RECURSIVE resolve(_, _, _)
resolve(st, story_id, items) ==
    IF items = <<>> THEN st
    ELSE LET key   == Head(items).key
             flags == Head(items).val
             isnew == ~Has(st.entity_dict, key)
             dict  == IF isnew THEN Put(st.entity_dict, key, st.next_entity_id)
                      ELSE st.entity_dict
             r     == [story_id |-> story_id,
                       entity_id |-> Get(dict, key),
                       score |-> flags.score,
                       in_item_what_happened |-> flags.in_item_what_happened,
                       in_item_section |-> flags.in_item_section,
                       in_item_why_it_matters |-> flags.in_item_why_it_matters,
                       in_title |-> flags.in_title,
                       in_body |-> flags.in_body]
         IN  resolve([entity_dict |-> dict,
                      next_entity_id |-> advance_entity_id(isnew, st.next_entity_id),
                      entity_counts |-> increment_count(st.entity_counts, key),
                      story_entity_rows |-> Append(st.story_entity_rows, r)],
                     story_id, Tail(items))

(***************************************************************************)
(* The store.                                                              *)
(***************************************************************************)
NoTable == [exists |-> FALSE, rows |-> <<>>]
EmptyTable == [exists |-> TRUE, rows |-> <<>>]

NullField == [kind |-> "null", ents |-> <<>>]

\* the WHERE clause of get_stories
has_content(row) == \E i \in DOMAIN FIELDS : row[FIELDS[i]].kind = "text"

\* variant: ORDER BY id DESC
RECURSIVE select_stories_desc(_)
select_stories_desc(id) ==
    IF id > Len(story) THEN <<>>
    ELSE select_stories_desc(id + 1) \o (IF has_content(story[id]) THEN <<id>> ELSE <<>>)

\* variant: the scan of story ends at the first row without content
RECURSIVE select_stories_until_blank(_)
select_stories_until_blank(id) ==
    IF id > Len(story) THEN <<>>
    ELSE IF has_content(story[id]) THEN <<id>> \o select_stories_until_blank(id + 1)
    ELSE <<>>

\* SELECT ... FROM story WHERE ... ORDER BY id
RECURSIVE select_stories(_)
select_stories(id) ==
    IF id > Len(story) THEN <<>>
    ELSE IF has_content(story[id]) THEN <<id>> \o select_stories(id + 1)
    ELSE select_stories(id + 1)

\* PRIMARY KEY: no two of the keys are equal
pk_unique(keys) ==
    \A i, j \in 1..Len(keys) : keys[i] = keys[j] => i = j

entity_pk(rows) == [i \in 1..Len(rows) |-> rows[i].id]
story_entity_pk(rows) == [i \in 1..Len(rows) |-> <<rows[i].story_id, rows[i].entity_id>>]

\* variant: the entities of a single story are left out of the catalog
entity_data_frequent ==
    SelectSeq([i \in 1..Len(entity_dict) |->
                  [id |-> entity_dict[i].val,
                   name |-> entity_dict[i].key[1],
                   type |-> entity_dict[i].key[2],
                   count |-> Get(entity_counts, entity_dict[i].key),
                   active |-> TRUE]],
              LAMBDA e : e.count > 1)

\* entity_data of write_to_database
entity_data ==
    [i \in 1..Len(entity_dict) |->
        LET key == entity_dict[i].key
        IN  [id |-> entity_dict[i].val,
             name |-> key[1],
             type |-> key[2],
             count |-> IF Has(entity_counts, key) THEN Get(entity_counts, key) ELSE 0,
             active |-> TRUE]]

(***************************************************************************)
(* main(): one action per statement that touches the store or the corpus.  *)
(***************************************************************************)
MemInit ==
    /\ stories_df = <<>>
    /\ pos = 0
    /\ entity_dict = <<>>
    /\ next_entity_id = 1
    /\ entity_counts = <<>>
    /\ story_entity_rows = <<>>

\* variant: next_entity_id outlives the run (ids go on from the last run)
MemReset_keeps_ids ==
    /\ stories_df' = <<>>
    /\ pos' = 0
    /\ entity_dict' = <<>>
    /\ UNCHANGED next_entity_id
    /\ entity_counts' = <<>>
    /\ story_entity_rows' = <<>>

\* variant: entity_counts outlives the run (counts add up over the runs)
MemReset_keeps_counts ==
    /\ stories_df' = <<>>
    /\ pos' = 0
    /\ entity_dict' = <<>>
    /\ next_entity_id' = 1
    /\ UNCHANGED entity_counts
    /\ story_entity_rows' = <<>>

\* variant: entity_dict outlives the run (an incremental merge of the catalog)
MemReset_keeps_dict ==
    /\ stories_df' = <<>>
    /\ pos' = 0
    /\ UNCHANGED entity_dict
    /\ next_entity_id' = 1
    /\ entity_counts' = <<>>
    /\ story_entity_rows' = <<>>

MemReset ==
    /\ stories_df' = <<>>
    /\ pos' = 0
    /\ entity_dict' = <<>>
    /\ next_entity_id' = 1
    /\ entity_counts' = <<>>
    /\ story_entity_rows' = <<>>

\* create_tables: DROP TABLE IF EXISTS story_entity
drop_story_entity ==
    /\ pc = "drop_story_entity"
    /\ story_entity' = NoTable
    /\ pc' = "drop_entity"
    /\ UNCHANGED <<story, entity, mem, aux>>

\* create_tables: DROP TABLE IF EXISTS entity
drop_entity ==
    /\ pc = "drop_entity"
    /\ entity' = NoTable
    /\ pc' = "create_entity"
    /\ UNCHANGED <<story, story_entity, mem, aux>>

\* create_tables: CREATE TABLE entity
create_entity ==
    /\ pc = "create_entity"
    /\ IF entity.exists
       THEN pc' = "failed" /\ UNCHANGED entity
       ELSE pc' = "create_story_entity" /\ entity' = EmptyTable
    /\ UNCHANGED <<story, story_entity, mem, aux>>

\* create_tables: CREATE TABLE story_entity
create_story_entity ==
    /\ pc = "create_story_entity"
    /\ IF story_entity.exists
       THEN pc' = "failed" /\ UNCHANGED story_entity
       ELSE pc' = "get_stories" /\ story_entity' = EmptyTable
    /\ UNCHANGED <<story, entity, mem, aux>>

get_stories ==
    /\ pc = "get_stories"
    /\ stories_df' = select_stories(1)
    /\ pc' = IF stories_df' = <<>> THEN "write_entity" ELSE "extract_entities"
    /\ UNCHANGED <<story, entity, story_entity, pos, entity_dict, next_entity_id,
                   entity_counts, story_entity_rows, aux>>

\* one iteration of "for idx, row in pbar"
extract_entities ==
    /\ pc = "extract_entities"
    /\ pos < Len(stories_df)
    /\ LET story_id == stories_df[pos + 1]
           st == resolve([entity_dict |-> entity_dict,
                          next_entity_id |-> next_entity_id,
                          entity_counts |-> entity_counts,
                          story_entity_rows |-> story_entity_rows],
                         story_id, aggregate_story(story[story_id]))
       IN  /\ entity_dict' = st.entity_dict
           /\ next_entity_id' = st.next_entity_id
           /\ entity_counts' = st.entity_counts
           /\ story_entity_rows' = st.story_entity_rows
    /\ pos' = pos + 1
    /\ pc' = IF pos' = Len(stories_df) THEN "write_entity" ELSE "extract_entities"
    /\ UNCHANGED <<story, entity, story_entity, stories_df, aux>>

\* write_to_database: INSERT INTO entity ... SELECT * FROM entity_df
write_entity ==
    /\ pc = "write_entity"
    /\ LET rows == entity.rows \o entity_data
       IN  IF entity.exists /\ pk_unique(entity_pk(rows))
           THEN pc' = "write_story_entity" /\ entity' = [entity EXCEPT !.rows = rows]
           ELSE pc' = "failed" /\ UNCHANGED entity
    /\ UNCHANGED <<story, story_entity, mem, aux>>

\* write_to_database: INSERT INTO story_entity SELECT * FROM se_df,
\* then print_statistics and conn.close()
insert_story_entity ==
    /\ pc = "write_story_entity"
    /\ LET rows == story_entity.rows \o story_entity_rows
       IN  IF story_entity.exists /\ pk_unique(story_entity_pk(rows))
           THEN pc' = "done" /\ story_entity' = [story_entity EXCEPT !.rows = rows]
           ELSE pc' = "failed" /\ UNCHANGED story_entity
    /\ UNCHANGED <<story, entity, mem>>

write_story_entity ==
    /\ insert_story_entity
    /\ UNCHANGED aux

\* variant: the loop catches the error of nlp and leaves the loop, the run goes
\* on to write what it has
ner_failure_swallowed ==
    /\ pc = "extract_entities"
    /\ pos < Len(stories_df)
    /\ pc' = "write_entity"
    /\ UNCHANGED <<story, entity, story_entity, mem, aux>>

\* extract_entities_from_text: doc = nlp(text) raises while a story is being
\* processed; nothing in the loop or in main catches it, so the process ends
\* with the traceback. What the run had collected is kept here as a record of
\* how far it got; the next run starts from fresh memory.
ner_failure ==
    /\ pc = "extract_entities"
    /\ pos < Len(stories_df)
    /\ pc' = "failed"
    /\ UNCHANGED <<story, entity, story_entity, mem, aux>>

\* the run stops before its next statement takes effect: the statement raises
\* (a store error, an nlp error) or the process is ended; what the store already
\* holds stays, every statement being its own transaction
abort ==
    /\ pc \notin {"done", "failed"}
    /\ pc' = "failed"
    /\ MemReset
    /\ UNCHANGED <<story, entity, story_entity, aux>>

\* variant: create_tables is called only when a table is missing
main_keeps_tables ==
    /\ pc \in {"done", "failed"}
    /\ pc' = IF entity.exists /\ story_entity.exists THEN "get_stories"
             ELSE "drop_story_entity"
    /\ MemReset
    /\ UNCHANGED <<story, entity, story_entity, aux>>

\* python entities/extract_entities.py is run again
main ==
    /\ pc \in {"done", "failed"}
    /\ pc' = "drop_story_entity"
    /\ MemReset
    /\ UNCHANGED <<story, entity, story_entity, aux>>

\* the last two of a history
last_two(h) == IF Len(h) > 2 THEN Tail(h) ELSE h

\* write_story_entity, with the build that completes entered in the history:
\* the corpus it read, what it computed and what it left in the store
write_story_entity_logged ==
    /\ insert_story_entity
    /\ builds' = IF pc' = "done"
                 THEN last_two(Append(builds,
                        [story |-> story,
                         entity_dict |-> entity_dict,
                         story_entity_rows |-> story_entity_rows,
                         entity |-> entity,
                         story_entity |-> story_entity']))
                 ELSE builds
    /\ UNCHANGED <<entities_json, web>>

Next ==
    \/ drop_story_entity
    \/ drop_entity
    \/ create_entity
    \/ create_story_entity
    \/ get_stories
    \/ extract_entities
    \/ write_entity
    \/ write_story_entity
    \/ ner_failure
    \/ abort
    \/ main

(***************************************************************************)
(* The corpora of the model.                                               *)
(***************************************************************************)
Trump == <<"T","r","u","m","p">>
FBI_padded == <<" ","F","B","I">>
US == <<"U","S">>

\* what nlp may recognize in a text
Mentions ==
    { [text |-> Trump, label_ |-> "PERSON"],
      [text |-> Trump, label_ |-> "ORG"],
      [text |-> FBI_padded, label_ |-> "ORG"] }

DocMentions ==
    { [text |-> Trump, label_ |-> "PERSON"],
      [text |-> Trump, label_ |-> "ORG"],
      [text |-> US, label_ |-> "GPE"] }

FieldNames == {FIELDS[i] : i \in DOMAIN FIELDS}

EmptyRow == [f \in FieldNames |-> NullField]

\* a placement puts one more recognized mention at the end of a field's text
RECURSIVE place(_, _)
place(tbl, ps) ==
    IF ps = <<>> THEN tbl
    ELSE LET p == Head(ps)
             old == tbl[p.id][p.field]
         IN  place([tbl EXCEPT ![p.id][p.field] =
                        [kind |-> "text", ents |-> Append(old.ents, p.ent)]],
                   Tail(ps))

Corpora(n, fields, ms, budget) ==
    LET Placements == [id : 1..n, field : fields, ent : ms]
        base == [id \in 1..n |-> EmptyRow]
    IN  {place(base, ps) : ps \in UNION {[1..k -> Placements] : k \in 0..budget}}

\* NULL of the store, None of python
NULL == "NULL"

\* the columns of a story that enrich.py reads and writes besides title and
\* body, as import_csv_to_db inserts them: source_url of the CSV, the rest NULL
imported(source_url) ==
    [source_url |-> source_url, authors |-> NULL, image |-> NULL, errors |-> NULL]

\* no article has been applied
NoArticle ==
    [title |-> NullField, body |-> NullField, authors |-> NULL, image |-> NULL,
     success |-> FALSE, error |-> NULL]

\* the enriched columns of story id, and its errors, as one record
enriched(tbl, tbl_web, id) ==
    [title |-> tbl[id]["title"], body |-> tbl[id]["body"],
     authors |-> tbl_web[id].authors, image |-> tbl_web[id].image,
     errors |-> tbl_web[id].errors]

\* enrich.py is not running; last[id] is the outcome of the last attempt on
\* story id: "none", "ok" or "failed"
EnrichIdle ==
    [pc |-> "idle", limit |-> 0, stories |-> <<>>, idx |-> 0, story_id |-> 0,
     article |-> NoArticle, before |-> NoArticle, last |-> <<>>]

\* fetch_post_page has not been called
NoFetch ==
    [status |-> "none", url |-> "", arg |-> "default", max_retries |-> 0, log |-> <<>>,
     result |-> NULL]

\* no entities.json has been written
NotExported == [written |-> FALSE, entities |-> <<>>]

\* no build has run: no entity tables, nothing exported
BuildInit ==
    /\ entity = NoTable
    /\ story_entity = NoTable
    /\ pc = "drop_story_entity"
    /\ MemInit
    /\ entities_json = NotExported
    /\ builds = <<>>

StoreInit ==
    /\ BuildInit
    /\ story_web = [id \in 1..Len(story) |-> imported(NULL)]
    /\ enrich_run = EnrichIdle
    /\ fetch = NoFetch

\* the fields that hold text in the stories of Spec: the first and the last
\* the code processes (SpecDoc uses all five)
TextFields == {"item_what_happened", "body"}

Init ==
    /\ story \in Corpora(MaxStories, TextFields, Mentions, MaxMentions)
    /\ StoreInit

Spec == Init /\ [][Next]_vars

\* one story, with room for a field that repeats a mention beyond the cap
InitDoc ==
    /\ story \in Corpora(1, FieldNames, DocMentions, MaxDocMentions)
    /\ StoreInit

SpecDoc == InitDoc /\ [][Next]_vars

(***************************************************************************)
(* The corpora that exercise is_valid_entity: one story whose title holds  *)
(* mentions of short names, of a weekday, of a month, and of a name that   *)
(* nlp returns with trailing whitespace.                                   *)
(***************************************************************************)
MaxFilterMentions == 2

Oz == <<"O","z">>
Monday == <<"M","o","n","d","a","y">>
May == <<"M","a","y">>
Trump_trailing == <<"T","r","u","m","p"," "," ">>

FilterMentions ==
    { [text |-> US, label_ |-> "GPE"],
      [text |-> Oz, label_ |-> "GPE"],
      [text |-> Monday, label_ |-> "ORG"],
      [text |-> May, label_ |-> "PERSON"],
      [text |-> Trump, label_ |-> "PERSON"],
      [text |-> Trump_trailing, label_ |-> "PERSON"] }

InitFilter ==
    /\ story \in Corpora(1, {"title"}, FilterMentions, MaxFilterMentions)
    /\ StoreInit

SpecFilter == InitFilter /\ [][Next]_vars

(***************************************************************************)
(* The corpora with missing fields: each of the two text fields of each    *)
(* story is NULL, the empty string, a text without mentions or a text with *)
(* one mention.                                                            *)
(***************************************************************************)
EmptyField == [kind |-> "empty", ents |-> <<>>]

BlankValues ==
    { NullField, EmptyField,
      [kind |-> "text", ents |-> <<>>],
      [kind |-> "text", ents |-> <<[text |-> Trump, label_ |-> "PERSON"]>>] }

BlankRows ==
    { [f \in FieldNames |-> IF f \in TextFields THEN v[f] ELSE NullField] :
        v \in [TextFields -> BlankValues] }

InitBlank ==
    /\ story \in [1..MaxStories -> BlankRows]
    /\ StoreInit

SpecBlank == InitBlank /\ [][Next]_vars

(***************************************************************************)
(* Rebuilds over a corpus that changes between the runs.  Between two runs *)
(* of extract_entities.py an import may rewrite a story; the builds that   *)
(* complete are entered in the history.                                    *)
(***************************************************************************)
MaxRebuildMentions == 1

\* the CSV has rows for the stories 1..MaxImportStories
MaxImportStories == 1

\* what the CSV may hold in item_section of a story
ImportValues ==
    { NullField, [kind |-> "text", ents |-> <<[text |-> Trump, label_ |-> "ORG"]>>] }

\* import_csv_to_db, "Update existing rows": a story the CSV matches (same
\* post_name, same start of item_what_happened) gets the item_section of the
\* CSV. The import opens the database for writing, so no build is running.
import_csv_to_db ==
    /\ pc \in {"done", "failed"}
    /\ \E id \in 1..min(MaxImportStories, Len(story)) : \E v \in ImportValues :
          /\ story[id]["item_section"] # v
          /\ story' = [story EXCEPT ![id]["item_section"] = v]
    /\ UNCHANGED <<entity, story_entity, pc, mem, aux>>

InitRebuild ==
    /\ story \in Corpora(MaxStories, {"body"}, Mentions, MaxRebuildMentions)
    /\ StoreInit

NextRebuild ==
    \/ drop_story_entity
    \/ drop_entity
    \/ create_entity
    \/ create_story_entity
    \/ get_stories
    \/ extract_entities
    \/ write_entity
    \/ write_story_entity_logged
    \/ ner_failure
    \/ abort
    \/ main
    \/ import_csv_to_db

SpecRebuild == InitRebuild /\ [][NextRebuild]_vars

(***************************************************************************)
(* make_entities_json.py: the export of the catalog to entities.json.      *)
(***************************************************************************)
\* sum of the scores of the relation rows of entity id
RECURSIVE sum_scores(_, _)
sum_scores(rows, id) ==
    IF rows = <<>> THEN 0
    ELSE (IF Head(rows).entity_id = id THEN Head(rows).score ELSE 0)
         + sum_scores(Tail(rows), id)

\* entity_stories_view: one row per active entity, with the number of its
\* stories, the sum of the scores of its relation rows and the set of the
\* ids of its stories
entity_stories_view ==
    LET active == SelectSeq(entity.rows, LAMBDA e : e.active)
    IN  [i \in 1..Len(active) |->
            LET ids == {story_entity.rows[k].story_id :
                            k \in {m \in 1..Len(story_entity.rows) :
                                      story_entity.rows[m].entity_id = active[i].id}}
            IN  [name |-> active[i].name,
                 type |-> active[i].type,
                 story_count |-> Cardinality(ids),
                 total_score |-> sum_scores(story_entity.rows, active[i].id),
                 story_ids |-> ids]]

\* the orders of the rows 1..n
orders(n) == {p \in [1..n -> 1..n] : \A i, j \in 1..n : p[i] = p[j] => i = j}

\* variant: ORDER BY total_score, without DESC
order_by_total_score(rows) ==
    {[i \in 1..Len(rows) |-> rows[p[i]]] :
        p \in {q \in orders(Len(rows)) :
                 \A i, j \in 1..Len(rows) :
                     i < j => rows[q[i]].total_score <= rows[q[j]].total_score}}

\* ORDER BY total_score DESC: the results the query may give. The clause
\* names no second key, so rows of equal total_score come in any order.
order_by_total_score_desc(rows) ==
    {[i \in 1..Len(rows) |-> rows[p[i]]] :
        p \in {q \in orders(Len(rows)) :
                 \A i, j \in 1..Len(rows) :
                     i < j => rows[q[i]].total_score >= rows[q[j]].total_score}}

\* main of make_entities_json.py: query the view, build the records, write the
\* file. The database is opened read-only, which the store refuses while a
\* build has it open; a query on a missing table raises and nothing is written.
\* The order of the ids inside storyIds is left out: storyIds is their set.
make_entities_json ==
    /\ pc \in {"done", "failed"}
    /\ entity.exists /\ story_entity.exists
    /\ \E result \in order_by_total_score_desc(entity_stories_view) :
          entities_json' =
              [written |-> TRUE,
               entities |-> [i \in 1..Len(result) |->
                               [name |-> result[i].name,
                                type |-> result[i].type,
                                storyIds |-> result[i].story_ids]]]
    /\ UNCHANGED <<story, entity, story_entity, pc, mem, builds, web>>

MaxExportMentions == 3

ExportMentions ==
    { [text |-> Trump, label_ |-> "PERSON"],
      [text |-> FBI_padded, label_ |-> "ORG"] }

InitExport ==
    /\ story \in Corpora(MaxStories, {"item_section", "body"}, ExportMentions,
                          MaxExportMentions)
    /\ StoreInit

\* builds, and exports of what they left in the store
NextExport ==
    \/ drop_story_entity
    \/ drop_entity
    \/ create_entity
    \/ create_story_entity
    \/ get_stories
    \/ extract_entities
    \/ write_entity
    \/ write_story_entity
    \/ ner_failure
    \/ abort
    \/ main
    \/ make_entities_json

SpecExport == InitExport /\ [][NextExport]_vars

(***************************************************************************)
(* The corpora with mentions of types outside ENTITY_TYPES: a name that    *)
(* nlp gives once as PERSON and once as NORP, and a name it gives as DATE. *)
(***************************************************************************)
MaxVocabMentions == 3

VocabMentions ==
    { [text |-> Trump, label_ |-> "PERSON"],
      [text |-> Trump, label_ |-> "NORP"],
      [text |-> FBI_padded, label_ |-> "DATE"] }

InitVocab ==
    /\ story \in Corpora(MaxStories, TextFields, VocabMentions, MaxVocabMentions)
    /\ StoreInit

SpecVocab == InitVocab /\ [][Next]_vars

(***************************************************************************)
(* The corpora for the range of the score: one story, each of whose five   *)
(* fields mentions the same entity from 0 to MaxFieldMentions times.       *)
(***************************************************************************)
MaxFieldMentions == 4

\* a field whose text mentions Trump n times; NULL for n = 0
repeated(n) ==
    IF n = 0 THEN NullField
    ELSE [kind |-> "text", ents |-> [i \in 1..n |-> [text |-> Trump, label_ |-> "PERSON"]]]

InitScore ==
    /\ story \in {<<[f \in FieldNames |-> repeated(n[f])]>> :
                     n \in [FieldNames -> 0..MaxFieldMentions]}
    /\ StoreInit

SpecScore == InitScore /\ [][Next]_vars

(***************************************************************************)
(* enrich.py: the article of a story's source_url fills title, body,       *)
(* authors and image.                                                      *)
(***************************************************************************)
MaxEnrichStories == 2
MaxLimit == 1

\* "if v:" of python and "v IS NOT NULL AND v != ''" of SQL, for a string
nonempty(v) == v # NULL /\ v # ""

\* the same for title and body, which the model holds as fields
has_text(f) == f.kind = "text"

\* texts an article may carry: one where nlp recognizes nothing, one that
\* mentions Trump
T1 == [kind |-> "text", ents |-> <<>>]
T2 == [kind |-> "text", ents |-> <<[text |-> Trump, label_ |-> "PERSON"]>>]

\* what process_url_newspaper and process_url_playwright return: a parsed
\* article (any of the four may be ""), or a failure with all four None
\* (the 401/403 dictionary has no such keys, so article.get gives None too)
Articles ==
    { [title |-> T1, body |-> T1, authors |-> "a1", image |-> "i1",
       success |-> TRUE, error |-> NULL],
      [title |-> T2, body |-> T1, authors |-> "a1", image |-> "i1",
       success |-> TRUE, error |-> NULL],
      [title |-> T1, body |-> T1, authors |-> "", image |-> "i1",
       success |-> TRUE, error |-> NULL],
      [title |-> EmptyField, body |-> EmptyField, authors |-> "", image |-> "",
       success |-> TRUE, error |-> NULL],
      [title |-> NullField, body |-> NullField, authors |-> NULL, image |-> NULL,
       success |-> FALSE, error |-> "e1"],
      [title |-> NullField, body |-> NullField, authors |-> NULL, image |-> NULL,
       success |-> FALSE, error |-> "Playwright: e2"] }

\* variant: the source_url is not looked at
where_to_enrich_any_url(id) ==
    \/ story_web[id].errors # NULL /\ story_web[id].errors # ""
    \/ story[id]["title"].kind \in {"null", "empty"}
    \/ story[id]["body"].kind \in {"null", "empty"}
    \/ story_web[id].authors = NULL \/ story_web[id].authors = ""
    \/ story_web[id].image = NULL \/ story_web[id].image = ""

\* the WHERE clause of get_stories_to_enrich
where_to_enrich(id) ==
    /\ story_web[id].source_url # NULL
    /\ story_web[id].source_url # ""
    /\ \/ story_web[id].errors # NULL /\ story_web[id].errors # ""
       \/ story[id]["title"].kind \in {"null", "empty"}
       \/ story[id]["body"].kind \in {"null", "empty"}
       \/ story_web[id].authors = NULL \/ story_web[id].authors = ""
       \/ story_web[id].image = NULL \/ story_web[id].image = ""

\* the rows of story from id on that the WHERE clause keeps, ORDER BY id
RECURSIVE select_to_enrich(_)
select_to_enrich(id) ==
    IF id > Len(story) THEN <<>>
    ELSE IF where_to_enrich(id) THEN <<id>> \o select_to_enrich(id + 1)
    ELSE select_to_enrich(id + 1)

\* get_stories_to_enrich; limit 0 stands for None as well ("if limit:")
get_stories_to_enrich(limit) ==
    IF limit # 0
    THEN SubSeq(select_to_enrich(1), 1, min(limit, Len(select_to_enrich(1))))
    ELSE select_to_enrich(1)

\* variant: errors is set only when the article has an error
update_story_keeps_errors(story_id, article) ==
    [story |->
        [story EXCEPT
            ![story_id]["title"] = IF has_text(article.title) THEN article.title ELSE @,
            ![story_id]["body"] = IF has_text(article.body) THEN article.body ELSE @],
     story_web |->
        [story_web EXCEPT
            ![story_id].authors = IF nonempty(article.authors) THEN article.authors ELSE @,
            ![story_id].image = IF nonempty(article.image) THEN article.image ELSE @,
            ![story_id].errors = IF nonempty(article.error) THEN article.error ELSE @]]

\* update_story: the tables after UPDATE story SET ... WHERE id = story_id
update_story(story_id, article) ==
    [story |->
        [story EXCEPT
            ![story_id]["title"] = IF has_text(article.title) THEN article.title ELSE @,
            ![story_id]["body"] = IF has_text(article.body) THEN article.body ELSE @],
     story_web |->
        [story_web EXCEPT
            ![story_id].authors = IF nonempty(article.authors) THEN article.authors ELSE @,
            ![story_id].image = IF nonempty(article.image) THEN article.image ELSE @,
            ![story_id].errors = article.error]]

\* main of enrich.py up to the loop: the stories of this run are selected
\* once (a run that finds none goes straight to its end)
enrich_get_stories ==
    /\ enrich_run.pc = "idle"
    /\ \E limit \in 0..MaxLimit :
          enrich_run' = [enrich_run EXCEPT !.pc = "loop", !.limit = limit,
                                           !.stories = get_stories_to_enrich(limit),
                                           !.idx = 1]
    /\ UNCHANGED <<story, entity, story_entity, pc, mem, entities_json, builds,
                   story_web, fetch>>

\* one turn of the loop of main: the url is processed (newspaper, then
\* playwright if blocked) and update_story stores what came back
enrich_story ==
    /\ enrich_run.pc = "loop"
    /\ enrich_run.idx <= Len(enrich_run.stories)
    /\ \E article \in Articles :
          LET story_id == enrich_run.stories[enrich_run.idx]
              after == update_story(story_id, article)
          IN  /\ story' = after.story
              /\ story_web' = after.story_web
              /\ enrich_run' =
                    [enrich_run EXCEPT
                        !.idx = @ + 1,
                        !.story_id = story_id,
                        !.article = article,
                        !.before = enriched(story, story_web, story_id),
                        !.last[story_id] = IF article.success THEN "ok" ELSE "failed"]
    /\ UNCHANGED <<entity, story_entity, pc, mem, entities_json, builds, fetch>>

\* the end of main: nothing is left in the list
enrich_done ==
    /\ enrich_run.pc = "loop"
    /\ enrich_run.idx > Len(enrich_run.stories)
    /\ enrich_run' = [enrich_run EXCEPT !.pc = "idle"]
    /\ UNCHANGED <<story, entity, story_entity, pc, mem, entities_json, builds,
                   story_web, fetch>>

\* stories as import_csv_to_db inserted them, with or without a source_url
InitEnrich ==
    /\ \E n \in 1..MaxEnrichStories :
          /\ story = [id \in 1..n |-> EmptyRow]
          /\ story_web \in [1..n -> {imported(u) : u \in {NULL, "", "u"}}]
          /\ enrich_run = [EnrichIdle EXCEPT !.last = [id \in 1..n |-> "none"]]
    /\ BuildInit
    /\ fetch = NoFetch

NextEnrich ==
    \/ enrich_get_stories
    \/ enrich_story
    \/ enrich_done

SpecEnrich == InitEnrich /\ [][NextEnrich]_vars

(***************************************************************************)
(* post_scraper.py: PostScraper.fetch_post_page.                           *)
(***************************************************************************)
MaxRetries == 3
DefaultMaxRetries == 3

\* what page.content() may return, and what an attempt may raise
Htmls == {"h1", "h2"}
Errors == {"e1", "e2"}

\* the timeout of page.goto in the given attempt, in ms
navigation_timeout(attempt) == 30000 + (attempt - 1) * 15000

\* variant: "attempt <= max_retries"
retries_left_inclusive(attempt, max_retries) == attempt <= max_retries

\* "if attempt < max_retries": the failure is logged as a warning and the loop
\* goes on; otherwise the error is raised
retries_left(attempt, max_retries) == attempt < max_retries

\* the call: max_retries is given, or left to its default
fetch_post_page ==
    /\ fetch.status # "running"
    /\ \E arg \in {"default", "given"} : \E n \in 0..MaxRetries :
          /\ arg = "default" => n = DefaultMaxRetries
          /\ fetch' = [status |-> "running", url |-> "u", arg |-> arg,
                       max_retries |-> n,
                       log |-> <<>>, result |-> NULL]
    /\ UNCHANGED <<story, entity, story_entity, pc, mem, entities_json, builds,
                   story_web, enrich_run>>

\* a turn of the loop in which nothing is raised: the page is loaded within
\* the timeout, the content selector is found or not (a warning), and the
\* html is returned
fetch_attempt_succeeds ==
    /\ fetch.status = "running"
    /\ Len(fetch.log) + 1 <= fetch.max_retries
    /\ \E html \in Htmls : \E selector_found \in BOOLEAN :
          LET attempt == Len(fetch.log) + 1
          IN  fetch' = [fetch EXCEPT
                  !.log = Append(@, [attempt |-> attempt,
                                     timeout |-> navigation_timeout(attempt),
                                     outcome |-> "html", value |-> html,
                                     selector_found |-> selector_found]),
                  !.status = "returned",
                  !.result = html]
    /\ UNCHANGED <<story, entity, story_entity, pc, mem, entities_json, builds,
                   story_web, enrich_run>>

\* a turn of the loop in which launch, goto or content raises
fetch_attempt_fails ==
    /\ fetch.status = "running"
    /\ Len(fetch.log) + 1 <= fetch.max_retries
    /\ \E e \in Errors :
          LET attempt == Len(fetch.log) + 1
          IN  fetch' = [fetch EXCEPT
                  !.log = Append(@, [attempt |-> attempt,
                                     timeout |-> navigation_timeout(attempt),
                                     outcome |-> "error", value |-> e,
                                     selector_found |-> FALSE]),
                  !.status = IF retries_left(attempt, fetch.max_retries)
                             THEN "running" ELSE "raised",
                  !.result = IF retries_left(attempt, fetch.max_retries)
                             THEN @ ELSE e]
    /\ UNCHANGED <<story, entity, story_entity, pc, mem, entities_json, builds,
                   story_web, enrich_run>>

\* the range of the loop is used up without a return or a raise: the
\* function ends and returns None
fetch_loop_ends ==
    /\ fetch.status = "running"
    /\ Len(fetch.log) + 1 > fetch.max_retries
    /\ fetch' = [fetch EXCEPT !.status = "returned", !.result = NULL]
    /\ UNCHANGED <<story, entity, story_entity, pc, mem, entities_json, builds,
                   story_web, enrich_run>>

\* the steps of a call that has begun
fetch_step ==
    \/ fetch_attempt_succeeds
    \/ fetch_attempt_fails
    \/ fetch_loop_ends

InitFetch ==
    /\ story = <<>>
    /\ StoreInit

NextFetch ==
    \/ fetch_post_page
    \/ fetch_attempt_succeeds
    \/ fetch_attempt_fails
    \/ fetch_loop_ends

\* every attempt ends, by its timeouts at the latest, so a call that has
\* begun keeps taking steps
SpecFetch == InitFetch /\ [][NextFetch]_vars /\ WF_vars(fetch_step)

(***************************************************************************)
(* Vocabulary of the properties.                                           *)
(***************************************************************************)
\* the stories the loop of extract_entities has consumed so far
processed == {stories_df[i] : i \in 1..pos}

\* a recognized mention with an in-vocabulary type that passes the filter
accepted(ent) ==
    ent.label_ \in DOMAIN ENTITY_TYPES /\ is_valid_entity(strip(ent.text))

\* the (name, type) key of an accepted mention
key_of(ent) == <<strip(ent.text), ENTITY_TYPES[ent.label_]>>

\* number of accepted mentions of key in field f of story d
mentions_in(d, f, key) ==
    Cardinality({i \in 1..Len(story[d][f].ents) :
                    accepted(story[d][f].ents[i]) /\ key_of(story[d][f].ents[i]) = key})

keys_in(d, f) ==
    {key_of(story[d][f].ents[i]) :
        i \in {j \in 1..Len(story[d][f].ents) : accepted(story[d][f].ents[j])}}

keys_of_story(d) == UNION {keys_in(d, f) : f \in FieldNames}

\* the key entity_dict maps to id
key_of_id(id) == entity_dict[CHOOSE i \in 1..Len(entity_dict) : entity_dict[i].val = id].key

\* the relation rows built so far for story d and entity id
rows_for(d, id) ==
    {i \in 1..Len(story_entity_rows) :
        story_entity_rows[i].story_id = d /\ story_entity_rows[i].entity_id = id}

SeqToSet(sq) == {sq[i] : i \in 1..Len(sq)}

(***************************************************************************)
(* C1.  The persisted store never exposes an entity catalog without its    *)
(* relation rows or relation rows without their catalog: at every moment   *)
(* of a rebuild, also when it stops between two store operations, every    *)
(* entity row has a relation row and every relation row has its entity.    *)
(***************************************************************************)
C1_AtomicReplace ==
    /\ \A e \in SeqToSet(entity.rows) :
          \E r \in SeqToSet(story_entity.rows) : r.entity_id = e.id
    /\ \A r \in SeqToSet(story_entity.rows) :
          \E e \in SeqToSet(entity.rows) : e.id = r.entity_id

(***************************************************************************)
(* C2.  After a failed build the store does not hold a partially written   *)
(* catalog: never entity rows of the build while the story_entity rows of  *)
(* the build are missing or incomplete, that is, every persisted entity    *)
(* has as many persisted relation rows as its count says.                  *)
(***************************************************************************)
C2_NoPartialCatalogAfterFailure ==
    pc = "failed" =>
        \A e \in SeqToSet(entity.rows) :
            Cardinality({i \in 1..Len(story_entity.rows) :
                            story_entity.rows[i].entity_id = e.id}) = e.count

(***************************************************************************)
(* C3.  No silent data loss: every accepted mention in every processed     *)
(* story, with key (name, type), has exactly one relation row              *)
(* (story, id(name, type)).                                                *)
(***************************************************************************)
C3_NoSilentDataLoss ==
    \A d \in processed : \A key \in keys_of_story(d) :
        /\ Has(entity_dict, key)
        /\ Cardinality(rows_for(d, Get(entity_dict, key))) = 1

(***************************************************************************)
(* C4.  Within one field occurrences are counted per (name, type): every   *)
(* pair with an accepted mention in the field is an entity of the field's  *)
(* result, with its own type and the number of its own mentions as count.  *)
(***************************************************************************)
C4_CountPerPair ==
    \A d \in processed : \A f \in FieldNames :
        LET entities == extract_entities_from_text(story[d][f])
        IN  \A key \in keys_in(d, f) :
                \E i \in 1..Len(entities) :
                    /\ entities[i].key = key[1]
                    /\ entities[i].val.type = key[2]
                    /\ entities[i].val.count = mentions_in(d, f, key)

(***************************************************************************)
(* C5.  Presence/score consistency: in every relation row a presence flag  *)
(* is true exactly when the row's entity has an accepted mention in that   *)
(* field of the row's story, and the score is the sum, over the fields     *)
(* whose flag is true, of weight * min(mentions, MAX_APPEARANCES).         *)
(***************************************************************************)
contribution(r, f) ==
    IF r[FLAG[f]]
    THEN FIELD_WEIGHTS[f] * min(mentions_in(r.story_id, f, key_of_id(r.entity_id)),
                                MAX_APPEARANCES)
    ELSE 0

C5_PresenceScoreConsistency ==
    \A r \in SeqToSet(story_entity_rows) :
        /\ \A f \in FieldNames :
              r[FLAG[f]] <=> mentions_in(r.story_id, f, key_of_id(r.entity_id)) >= 1
        /\ r.score = contribution(r, FIELDS[1]) + contribution(r, FIELDS[2])
                     + contribution(r, FIELDS[3]) + contribution(r, FIELDS[4])
                     + contribution(r, FIELDS[5])

(***************************************************************************)
(* C6.  Cap enforcement: an entity mentioned n times in a field, and in no *)
(* other field of the story, has a relation row whose score is weight * n  *)
(* for n < MAX_APPEARANCES and weight * MAX_APPEARANCES for every larger n.*)
(***************************************************************************)
C6_CapEnforcement ==
    \A d \in processed : \A f \in FieldNames : \A key \in keys_in(d, f) :
        (\A g \in FieldNames \ {f} : mentions_in(d, g, key) = 0) =>
            LET n == mentions_in(d, f, key)
            IN  /\ Has(entity_dict, key)
                /\ \E i \in rows_for(d, Get(entity_dict, key)) :
                      story_entity_rows[i].score =
                          IF n >= MAX_APPEARANCES
                          THEN FIELD_WEIGHTS[f] * MAX_APPEARANCES
                          ELSE FIELD_WEIGHTS[f] * n

(***************************************************************************)
(* C7.  documentCount: after any prefix of the stories every entity's      *)
(* count is the number of distinct stories with a relation row for it,     *)
(* and so is the count column of the catalog a completed build has written.*)
(***************************************************************************)
C7_DocumentCount ==
    /\ SeqToSet([i \in 1..Len(entity_counts) |-> entity_counts[i].key])
         = SeqToSet([i \in 1..Len(entity_dict) |-> entity_dict[i].key])
    /\ \A it \in SeqToSet(entity_dict) :
          Get(entity_counts, it.key)
            = Cardinality({r.story_id : r \in {x \in SeqToSet(story_entity_rows) :
                                                   x.entity_id = it.val}})
    /\ pc = "done" =>
          \A e \in SeqToSet(entity.rows) :
              e.count = Cardinality({r.story_id : r \in {x \in SeqToSet(story_entity.rows) :
                                                             x.entity_id = e.id}})

\* an entity of two stories, mentioned more than once in one of them
C7_Witness ==
    /\ pc = "done"
    /\ \E e \in SeqToSet(entity.rows) :
          /\ e.count = 2
          /\ \E r \in SeqToSet(story_entity.rows) :
                r.entity_id = e.id /\ r.score > FIELD_WEIGHTS.item_what_happened

(***************************************************************************)
(* C8.  Referential integrity: after a completed rebuild every entity_id   *)
(* of a story_entity row is the id of a row of entity.                     *)
(***************************************************************************)
C8_ReferentialIntegrity ==
    pc = "done" =>
        \A r \in SeqToSet(story_entity.rows) :
            \E e \in SeqToSet(entity.rows) : e.id = r.entity_id

\* a completed rebuild with relation rows of two entities, one of a single story
C8_Witness ==
    /\ pc = "done"
    /\ \E r1, r2 \in SeqToSet(story_entity.rows) : r1.entity_id # r2.entity_id
    /\ \E e \in SeqToSet(entity.rows) : e.count = 1

(***************************************************************************)
(* C9.  No two relation rows of a build have the same (story_id,           *)
(* entity_id), in the list the build produces and in the table it writes.  *)
(***************************************************************************)
C9_UniqueRelationKey ==
    /\ pk_unique(story_entity_pk(story_entity_rows))
    /\ pk_unique(story_entity_pk(story_entity.rows))

\* a story whose entity is present in two fields, beside another row
C9_Witness ==
    /\ Len(story_entity_rows) >= 2
    /\ \E r \in SeqToSet(story_entity_rows) :
          Cardinality({f \in FieldNames : r[FLAG[f]]}) >= 2

(***************************************************************************)
(* C10.  Identity resolution: after any prefix of the stories the ids      *)
(* assigned are exactly 1..N for the N distinct keys seen, in the order    *)
(* the keys were first seen, next_entity_id is the next unused one, and an *)
(* id assigned to a key stays the same for the rest of the build.          *)
(***************************************************************************)
IdsSequential ==
    /\ \A i \in 1..Len(entity_dict) : entity_dict[i].val = i
    /\ \A i, j \in 1..Len(entity_dict) :
          entity_dict[i].key = entity_dict[j].key => i = j
    /\ next_entity_id = Len(entity_dict) + 1

IdsStable ==
    (pc = "extract_entities" /\ pc' \in {"extract_entities", "write_entity"}) =>
        \A i \in 1..Len(entity_dict) :
            /\ Has(entity_dict', entity_dict[i].key)
            /\ Get(entity_dict', entity_dict[i].key) = entity_dict[i].val

C10_IdentityResolution == [](IdsSequential) /\ [][IdsStable]_vars

\* two stories consumed, the second meeting a key again and a new key
C10_Witness ==
    /\ pos = 2
    /\ Len(entity_dict) = 2
    /\ Len(story_entity_rows) = 3

\* every recognized mention, with an in-vocabulary type, of a story the loop
\* has consumed
processed_mentions ==
    UNION { {story[d][f].ents[i] : i \in 1..Len(story[d][f].ents)} :
                d \in processed, f \in FieldNames }
        \cap {ent \in UNION {Mentions, DocMentions, FilterMentions} :
                ent.label_ \in DOMAIN ENTITY_TYPES}

\* the build holds an entity for the mention
emitted(ent) == Has(entity_dict, key_of(ent))

\* the rules of the filter that come before the rule on short names
passes_earlier_rules(text) ==
    /\ Len(text) >= 2
    /\ isupper(text[1])
    /\ \A w \in FALSE_POSITIVES : lower(w) # strip(lower(text))
    /\ \E i \in 1..Len(text) : text[i] \notin DIGITS \cup {" ", "-", "'"}

(***************************************************************************)
(* C14.  Short names: a mention whose trimmed text has length 2 is         *)
(* rejected unless the text is one of US, UK, EU, UN, and a mention of one *)
(* of these four that passes the earlier rules of the filter is accepted   *)
(* and so has an entity.                                                   *)
(***************************************************************************)
C14_ShortAcronymAllowList ==
    \A ent \in processed_mentions :
        Len(strip(ent.text)) = 2 =>
            (emitted(ent) <=> /\ strip(ent.text) \in SHORT_ACRONYMS
                              /\ passes_earlier_rules(strip(ent.text)))

(***************************************************************************)
(* C15.  Stopwords: a mention whose lowercased, trimmed text is a member   *)
(* of the false-positive set, compared without regard to casing - so the   *)
(* names of the weekdays and of the months too - has no entity.            *)
(***************************************************************************)
C15_StopwordRejection ==
    \A ent \in processed_mentions :
        (\E w \in FALSE_POSITIVES : lower(w) = lower(strip(ent.text)))
            => ~emitted(ent)

\* what extract_entities_from_text makes of the one mention ent
filtered(ent) == add_entity(<<>>, ent)

(***************************************************************************)
(* C16.  The filter is idempotent: the name emitted for an accepted        *)
(* mention is already trimmed and passes the filter, so filtering it again *)
(* gives the same name, and the build holds that name; for a rejected      *)
(* mention nothing is emitted, the build holds no entity of its name.      *)
(***************************************************************************)
C16_FilterIdempotence ==
    \A ent \in processed_mentions :
        IF filtered(ent) # <<>>
        THEN LET y == filtered(ent)[1].key
             IN  /\ strip(y) = y
                 /\ is_valid_entity(y)
                 /\ filtered([text |-> y, label_ |-> ent.label_]) = filtered(ent)
                 /\ \E i \in 1..Len(entity_dict) : entity_dict[i].key[1] = y
        ELSE \A i \in 1..Len(entity_dict) : entity_dict[i].key[1] # strip(ent.text)

\* a name that came with trailing whitespace was accepted, and a weekday or
\* stopword-like mention was seen as well
C16_Witness ==
    /\ pc = "done"
    /\ \E ent \in processed_mentions :
          /\ strip(ent.text) # ent.text
          /\ filtered(ent) # <<>>
          /\ \E i \in 1..Len(entity.rows) : entity.rows[i].name = strip(ent.text)
    /\ \E ent \in processed_mentions : filtered(ent) = <<>>

(***************************************************************************)
(* C17.  A failure of nlp on a story is not swallowed: the run ends there  *)
(* as failed, and only a run that has consumed every story writes - the    *)
(* store never holds entity or relation rows while the loop is short of    *)
(* the end of stories_df, and after the failure both tables are empty.     *)
(***************************************************************************)
C17_NerFailureStopsBuild ==
    /\ pc \in {"write_entity", "write_story_entity", "done"} => pos = Len(stories_df)
    /\ (entity.rows # <<>> \/ story_entity.rows # <<>>) => pos = Len(stories_df)
    /\ (pc = "failed" /\ pos < Len(stories_df)) =>
            entity = EmptyTable /\ story_entity = EmptyTable

\* nlp failed on the second story, after the first had given relation rows
C17_Witness ==
    /\ pc = "failed"
    /\ 0 < pos /\ pos < Len(stories_df)
    /\ story_entity_rows # <<>>
    /\ entity = EmptyTable /\ story_entity = EmptyTable

\* field f of story d holds a text
usable(d, f) == story[d][f].kind = "text"

\* the stories with a usable field
usable_stories == {d \in 1..Len(story) : \E f \in FieldNames : usable(d, f)}

\* what a usable field adds to the score of relation row r
usable_contribution(r, f) ==
    IF usable(r.story_id, f)
    THEN FIELD_WEIGHTS[f] * min(mentions_in(r.story_id, f, key_of_id(r.entity_id)),
                                MAX_APPEARANCES)
    ELSE 0

(***************************************************************************)
(* C20.  Missing fields are not errors.  A field that is NULL or empty     *)
(* leaves its presence flag false and adds nothing to the score; a story   *)
(* with no usable field is not in stories_df, has no relation row, and no  *)
(* id or count comes from it: every entity of the build has its count from *)
(* the usable stories that mention it; and the build goes on: a run that   *)
(* reaches the writes has consumed every usable story.                     *)
(***************************************************************************)
C20_MissingFieldsSkipped ==
    /\ \A r \in SeqToSet(story_entity_rows) :
          /\ \A f \in FieldNames : ~usable(r.story_id, f) => ~r[FLAG[f]]
          /\ r.score = usable_contribution(r, FIELDS[1]) + usable_contribution(r, FIELDS[2])
                       + usable_contribution(r, FIELDS[3]) + usable_contribution(r, FIELDS[4])
                       + usable_contribution(r, FIELDS[5])
          /\ r.story_id \in usable_stories
    /\ processed \subseteq usable_stories
    /\ \A i \in 1..Len(entity_dict) :
          LET key == entity_dict[i].key
              docs == {d \in processed \cap usable_stories : key \in keys_of_story(d)}
          IN  /\ docs # {}
              /\ Get(entity_counts, key) = Cardinality(docs)
    /\ next_entity_id = 1 + Cardinality(UNION {keys_of_story(d) : d \in processed})
    /\ pc \in {"write_entity", "write_story_entity", "done"} => processed = usable_stories

\* the first story has a NULL and an empty field and nothing else, the second
\* an empty field and a text with a mention: the build completed with the one
\* relation row of the second story
C20_Witness ==
    /\ pc = "done"
    /\ Len(story) >= 2
    /\ story[1]["item_what_happened"].kind = "null" /\ story[1]["body"].kind = "empty"
    /\ story[2]["item_what_happened"].kind = "empty" /\ story[2]["body"].ents # <<>>
    /\ Len(story_entity.rows) = 1
    /\ story_entity.rows[1].story_id = 2
    /\ ~story_entity.rows[1].in_item_what_happened
    /\ entity.rows[1].count = 1

\* the (name, type) keys of the accepted mentions of a row of story
keys_of_row(row) ==
    UNION { {key_of(row[f].ents[i]) :
                i \in {j \in 1..Len(row[f].ents) : accepted(row[f].ents[j])}} :
            f \in FieldNames }

\* the last two builds that completed were over the same corpus
same_corpus_twice == Len(builds) = 2 /\ builds[1].story = builds[2].story

\* the stories that have a relation row with entity id in build b
story_ids_of(b, id) ==
    {r.story_id : r \in {x \in SeqToSet(b.story_entity_rows) : x.entity_id = id}}

C12_RebuildIdempotence ==
    same_corpus_twice =>
        /\ Len(builds[2].entity.rows) = Len(builds[1].entity.rows)
        /\ Len(builds[2].story_entity.rows) = Len(builds[1].story_entity.rows)
        /\ builds[2].entity = builds[1].entity
        /\ builds[2].story_entity = builds[1].story_entity

\* the store holds what the second of two rebuilds over one corpus left, a
\* catalog of two entities
C12_Witness ==
    /\ same_corpus_twice
    /\ pc = "done"
    /\ entity = builds[2].entity /\ story_entity = builds[2].story_entity
    /\ Len(entity.rows) >= 2
    /\ story_entity.rows # <<>>

(***************************************************************************)
(* C13.  Full replace: what a completed build leaves in the store is       *)
(* derived from the corpus it read and from nothing else: the tables hold  *)
(* exactly the rows the build computed, every entity row is of a (name,    *)
(* type) mentioned in that corpus, every relation row is of a story of     *)
(* that corpus that mentions its entity; no row of an earlier build over   *)
(* another corpus is left.                                                 *)
(***************************************************************************)
C13_FullReplace ==
    \A n \in 1..Len(builds) :
        LET b == builds[n]
        IN  /\ Len(b.entity.rows) = Len(b.entity_dict)
            /\ b.story_entity.rows = b.story_entity_rows
            /\ \A e \in SeqToSet(b.entity.rows) :
                  /\ \E d \in 1..Len(b.story) : <<e.name, e.type>> \in keys_of_row(b.story[d])
                  /\ \E x \in SeqToSet(b.entity_dict) :
                        x.key = <<e.name, e.type>> /\ x.val = e.id
            /\ \A r \in SeqToSet(b.story_entity.rows) :
                  \E e \in SeqToSet(b.entity.rows) :
                      /\ e.id = r.entity_id
                      /\ <<e.name, e.type>> \in keys_of_row(b.story[r.story_id])

\* a build over another corpus than the build before it: one entity of the
\* earlier build is gone, another has a new id
C13_Witness ==
    /\ Len(builds) = 2
    /\ pc = "done"
    /\ builds[1].story # builds[2].story
    /\ entity = builds[2].entity
    /\ \E e \in SeqToSet(builds[1].entity.rows) :
          \A x \in SeqToSet(builds[2].entity.rows) : <<x.name, x.type>> # <<e.name, e.type>>
    /\ \E e \in SeqToSet(builds[1].entity.rows) :
          \E x \in SeqToSet(builds[2].entity.rows) :
              <<x.name, x.type>> = <<e.name, e.type>> /\ x.id # e.id

\* the row of table entity that record x of entities.json is of
entity_of(x) ==
    CHOOSE e \in SeqToSet(entity.rows) : e.name = x.name /\ e.type = x.type

\* the sum of the scores of the relation rows of the entity of record x
total_of(x) == sum_scores(story_entity.rows, entity_of(x).id)

\* entities.json has been written anew
exported == entities_json' # entities_json

\* of two of the records es, the one of the larger total score comes first
sorted_by_total(es) ==
    \A i, j \in 1..Len(es) : total_of(es[i]) > total_of(es[j]) => i < j

(***************************************************************************)
(* C18.  Every export lists the entities of the store in non-increasing    *)
(* order of total score: of two records, the one whose entity has the      *)
(* strictly larger sum of relation scores comes first, however many        *)
(* stories each is in.                                                     *)
(***************************************************************************)
C18_ExportOrder ==
    [][exported => /\ Len(entities_json'.entities) = Len(entity.rows)
                   /\ sorted_by_total(entities_json'.entities)]_vars

\* an export of a completed build: the first record is of an entity in two
\* stories, with the smaller score in each, the second of an entity in one
\* story
C18_Witness ==
    /\ pc = "done"
    /\ entities_json.written
    /\ Len(entities_json.entities) = 2
    /\ Len(entity.rows) = 2
    /\ Cardinality(entities_json.entities[1].storyIds) = 2
    /\ Cardinality(entities_json.entities[2].storyIds) = 1
    /\ total_of(entities_json.entities[1]) > total_of(entities_json.entities[2])
    /\ \A r \in SeqToSet(story_entity.rows) :
          r.entity_id = entity_of(entities_json.entities[1]).id =>
              r.score < total_of(entities_json.entities[2])

\* records of equal total score come in the order of their entity ids
ties_by_id(es) ==
    \A i, j \in 1..Len(es) :
        (i < j /\ total_of(es[i]) = total_of(es[j]))
            => entity_of(es[i]).id < entity_of(es[j]).id

(***************************************************************************)
(* C19.  Export ties: in every export of a completed build, two entities   *)
(* of equal total score come in id order, the smaller entity id first.     *)
(***************************************************************************)
C19_ExportTieOrder ==
    [][(pc = "done" /\ exported) => ties_by_id(entities_json'.entities)]_vars

\* the five values of the type vocabulary
EntityTypeValues == {ENTITY_TYPES[l] : l \in DOMAIN ENTITY_TYPES}

\* the recognized mentions, of any type, of field f of story d
all_mentions(d, f) == {story[d][f].ents[i] : i \in 1..Len(story[d][f].ents)}

(***************************************************************************)
(* C21.  Closed type vocabulary: a mention whose type is none of PERSON,   *)
(* ORG, GPE, PRODUCT, EVENT is ignored.  Every entity of the build and of  *)
(* the catalog has one of the five types and has a mention of a vocabulary *)
(* type in a story; ids and counts come from the mentions of vocabulary    *)
(* types alone; a presence flag is set, and the score is made, by the      *)
(* mentions of vocabulary types alone.                                     *)
(***************************************************************************)
C21_ClosedVocabulary ==
    /\ \A i \in 1..Len(entity_dict) :
          LET key == entity_dict[i].key
              docs == {d \in processed : key \in keys_of_story(d)}
          IN  /\ key[2] \in EntityTypeValues
              /\ docs # {}
              /\ Get(entity_counts, key) = Cardinality(docs)
    /\ \A e \in SeqToSet(entity.rows) : e.type \in EntityTypeValues
    /\ next_entity_id = 1 + Cardinality(UNION {keys_of_story(d) : d \in processed})
    /\ \A r \in SeqToSet(story_entity_rows) :
          /\ \A f \in FieldNames :
                r[FLAG[f]] <=> mentions_in(r.story_id, f, key_of_id(r.entity_id)) >= 1
          /\ r.score = contribution(r, FIELDS[1]) + contribution(r, FIELDS[2])
                       + contribution(r, FIELDS[3]) + contribution(r, FIELDS[4])
                       + contribution(r, FIELDS[5])
    /\ \A d \in processed : \A f \in FieldNames :
          (all_mentions(d, f) # {} /\
           \A ent \in all_mentions(d, f) : ent.label_ \notin DOMAIN ENTITY_TYPES)
              => \A r \in SeqToSet(story_entity_rows) : r.story_id = d => ~r[FLAG[f]]

\* a completed build over a story whose body holds Trump as PERSON and as NORP
\* and whose other text holds only the DATE: one entity, counted once in body
C21_Witness ==
    /\ pc = "done"
    /\ \E d \in processed :
          /\ \E ent \in all_mentions(d, "body") : ent.label_ = "NORP"
          /\ \E ent \in all_mentions(d, "body") : ent.label_ = "PERSON"
          /\ \E ent \in all_mentions(d, "item_what_happened") : ent.label_ = "DATE"
          /\ Len(story[d]["body"].ents) = 2
    /\ Len(entity.rows) = 1
    /\ Len(story_entity.rows) = 1
    /\ story_entity.rows[1].score = FIELD_WEIGHTS["body"]
    /\ ~story_entity.rows[1].in_item_what_happened

\* a relation row has one of its five presence flags true
some_flag(r) == \E f \in FieldNames : r[FLAG[f]]

(***************************************************************************)
(* C22.  No zero rows: a relation row is of a story and an entity with an  *)
(* accepted mention in some field of that story; every row has a presence  *)
(* flag true and a score above zero; an entity with no mention in a story  *)
(* has no row for it.                                                      *)
(***************************************************************************)
C22_NoZeroRows ==
    /\ \A r \in SeqToSet(story_entity_rows) :
          /\ r.story_id \in processed
          /\ \E x \in SeqToSet(entity_dict) :
                /\ x.val = r.entity_id
                /\ \E f \in FieldNames : mentions_in(r.story_id, f, x.key) >= 1
          /\ some_flag(r)
          /\ r.score > 0
    /\ \A d \in processed : \A x \in SeqToSet(entity_dict) :
          (\A f \in FieldNames : mentions_in(d, f, x.key) = 0) => rows_for(d, x.val) = {}
    /\ \A r \in SeqToSet(story_entity.rows) : some_flag(r) /\ r.score > 0

\* a completed build of two stories and two entities, one of them in the
\* first story only: three pairs are possible, the store holds fewer rows
C22_Witness ==
    /\ pc = "done"
    /\ Len(stories_df) = 2
    /\ Len(entity.rows) = 2
    /\ Len(story_entity.rows) < 4
    /\ \E x \in SeqToSet(entity_dict) : \E d \in processed :
          /\ rows_for(d, x.val) = {}
          /\ \A f \in FieldNames : mentions_in(d, f, x.key) = 0

\* the (name, type), score and flags of the relation rows that build b made
\* for story d, without the ids
records_of(b, d) ==
    { [key |-> (CHOOSE x \in SeqToSet(b.entity_dict) : x.val = r.entity_id).key,
       score |-> r.score,
       flags |-> [f \in FieldNames |-> r[FLAG[f]]]] :
        r \in {x \in SeqToSet(b.story_entity_rows) : x.story_id = d} }

\* the build in progress, as a record of the kind kept in the history
running == [entity_dict |-> entity_dict, story_entity_rows |-> story_entity_rows]

first_story(id) ==
    LET ds == {r.story_id : r \in {x \in SeqToSet(story_entity_rows) : x.entity_id = id}}
    IN  CHOOSE d \in ds : \A e \in ds : d <= e

(***************************************************************************)
(* C24.  The stories are consumed in ascending id order, so ids follow     *)
(* first appearance: of two entities the one with the smaller id first     *)
(* appears in a story whose id is not larger; and the relation rows come   *)
(* in non-decreasing story_id order, in the build and in the store.        *)
(***************************************************************************)
C24_IdsFollowFirstAppearance ==
    /\ \A i, j \in 1..Len(stories_df) : i < j => stories_df[i] < stories_df[j]
    /\ \A x1, x2 \in SeqToSet(entity_dict) :
          x1.val < x2.val => first_story(x1.val) <= first_story(x2.val)
    /\ \A i, j \in 1..Len(story_entity_rows) :
          i < j => story_entity_rows[i].story_id <= story_entity_rows[j].story_id
    /\ \A i, j \in 1..Len(story_entity.rows) :
          i < j => story_entity.rows[i].story_id <= story_entity.rows[j].story_id

\* a completed build: entity 1 is in both stories, entity 2 in the second
\* story only, where it is mentioned before entity 1
C24_Witness ==
    /\ pc = "done"
    /\ Len(entity_dict) = 2
    /\ Len(story_entity.rows) = 3
    /\ first_story(1) = 1
    /\ first_story(2) = 2
    /\ story_entity.rows[2].story_id = 2 /\ story_entity.rows[2].entity_id = 2
    /\ story_entity.rows[3].story_id = 2 /\ story_entity.rows[3].entity_id = 1

\* the sum of the counts of a dict of counts
RECURSIVE sum_counts(_)
sum_counts(counts) ==
    IF counts = <<>> THEN 0 ELSE Head(counts).val + sum_counts(Tail(counts))

\* the sum of the column count of rows of table entity
RECURSIVE sum_count_column(_)
sum_count_column(rows) ==
    IF rows = <<>> THEN 0 ELSE Head(rows).count + sum_count_column(Tail(rows))

(***************************************************************************)
(* C26.  No entity without relations: after any prefix of the stories,     *)
(* every key of entity_dict has a count of at least 1 and a relation row   *)
(* with its id, and the number of relation rows is the sum of the counts;  *)
(* so it is for the rows entity_data makes of them for table entity.       *)
(***************************************************************************)
C26_NoEntityWithoutRelations ==
    /\ \A x \in SeqToSet(entity_dict) :
          /\ Has(entity_counts, x.key)
          /\ Get(entity_counts, x.key) >= 1
          /\ \E r \in SeqToSet(story_entity_rows) : r.entity_id = x.val
    /\ Len(entity_counts) = Len(entity_dict)
    /\ Len(story_entity_rows) = sum_counts(entity_counts)
    /\ \A e \in SeqToSet(entity_data) : e.count >= 1
    /\ Len(story_entity_rows) = sum_count_column(entity_data)

\* a prefix: the first of two stories is consumed, the second is not; one
\* entity has count 1 and its row
C26_Witness ==
    /\ pc = "extract_entities"
    /\ pos = 1 /\ Len(stories_df) = 2
    /\ Len(entity_dict) = 2
    /\ Len(story_entity_rows) = 2
    /\ sum_counts(entity_counts) = 2

\* the least and the largest weight, and the sum of the five weights
min_weight == CHOOSE w \in {FIELD_WEIGHTS[f] : f \in FieldNames} :
                  \A f \in FieldNames : w <= FIELD_WEIGHTS[f]

sum_weights == FIELD_WEIGHTS[FIELDS[1]] + FIELD_WEIGHTS[FIELDS[2]] + FIELD_WEIGHTS[FIELDS[3]]
               + FIELD_WEIGHTS[FIELDS[4]] + FIELD_WEIGHTS[FIELDS[5]]

(***************************************************************************)
(* C27.  Score bounds: the score of every relation row, in the build and   *)
(* in the store, is a whole number from 2 to 42: the least weight once,    *)
(* and the cap of 3 reached in every one of the five fields.               *)
(***************************************************************************)
C27_ScoreBounds ==
    /\ min_weight = 2
    /\ sum_weights * MAX_APPEARANCES = 42
    /\ \A r \in SeqToSet(story_entity_rows) \cup SeqToSet(story_entity.rows) :
          r.score \in 2..42

\* the story mentions the entity beyond the cap in all five fields and its
\* row has score 42
C27_Witness ==
    /\ pc = "done"
    /\ \A f \in FieldNames : Len(story[1][f].ents) > MAX_APPEARANCES
    /\ Len(story_entity.rows) = 1
    /\ story_entity.rows[1].score = 42

\* both tables of the catalog exist and are empty
catalog_empty == entity = EmptyTable /\ story_entity = EmptyTable

\* the run is in create_tables
in_create_tables ==
    pc \in {"drop_story_entity", "drop_entity", "create_entity", "create_story_entity"}

(***************************************************************************)
(* C25.  The rebuild discards the earlier data first.  While the run is in *)
(* create_tables no story has been fetched and nothing extracted; from the *)
(* end of create_tables until write_to_database inserts, both tables are   *)
(* empty; and a run that ends while it fetches or extracts leaves both     *)
(* tables empty: the catalog of the build before is not kept.              *)
(***************************************************************************)
C25_DiscardFirst ==
    /\ [](in_create_tables => stories_df = <<>> /\ pos = 0 /\ story_entity_rows = <<>>)
    /\ [](pc \in {"get_stories", "extract_entities", "write_entity"} => catalog_empty)
    /\ [][(pc \in {"get_stories", "extract_entities"} /\ pc' = "failed")
              => (entity' = EmptyTable /\ story_entity' = EmptyTable)]_vars

\* a build had completed with a catalog; the next run ended in the loop, on
\* the failure of nlp, and the tables are empty
C25_Witness ==
    /\ Len(builds) >= 1
    /\ builds[Len(builds)].entity.rows # <<>>
    /\ builds[Len(builds)].story_entity.rows # <<>>
    /\ pc = "failed"
    /\ pos < Len(stories_df)
    /\ catalog_empty


(***************************************************************************)
(* C28                                                                     *)
(***************************************************************************)
\* a step of the loop of enrich.py that called update_story
updating == enrich_run.pc = "loop" /\ enrich_run'.idx = enrich_run.idx + 1

\* C28: update_story changes only the row of the given story id: each of
\* title, body, authors and image becomes the article's value when that value
\* is non-empty and stays as it was when the value is None or empty; errors
\* always becomes the article's error, which is None after a success, so a
\* success clears an earlier error; no other column and no other row changes.
C28_UpdateStoryFrame ==
    [][updating =>
        LET id == enrich_run.stories[enrich_run.idx]
            a == enrich_run'.article
        IN  /\ enrich_run'.story_id = id
            /\ Len(story') = Len(story)
            /\ \A other \in DOMAIN story : other # id =>
                  story'[other] = story[other] /\ story_web'[other] = story_web[other]
            /\ \A f \in {"title", "body"} :
                  story'[id][f] = IF a[f].kind = "text" THEN a[f] ELSE story[id][f]
            /\ story_web'[id].authors =
                  IF a.authors \in {NULL, ""} THEN story_web[id].authors ELSE a.authors
            /\ story_web'[id].image =
                  IF a.image \in {NULL, ""} THEN story_web[id].image ELSE a.image
            /\ story_web'[id].errors = a.error
            /\ a.success => story_web'[id].errors = NULL
            /\ \A f \in FieldNames \ {"title", "body"} : story'[id][f] = story[id][f]
            /\ story_web'[id].source_url = story_web[id].source_url]_vars

\* a success with an empty title and empty authors has just cleared the error
\* of a story that had a title, next to a second story
C28_Witness ==
    /\ Len(story) = 2
    /\ enrich_run.story_id \in DOMAIN story
    /\ enrich_run.article.success
    /\ enrich_run.article.title.kind = "empty"
    /\ enrich_run.article.authors = ""
    /\ enrich_run.before.errors = "e1"
    /\ enrich_run.before.title.kind = "text"
    /\ story[enrich_run.story_id]["title"] = enrich_run.before.title
    /\ story_web[enrich_run.story_id].errors = NULL


(***************************************************************************)
(* C29                                                                     *)
(***************************************************************************)
\* the condition on one story: a non-empty source_url and either a
\* non-empty errors value or an empty title, body, authors or image
needs_enrichment(id) ==
    /\ nonempty(story_web[id].source_url)
    /\ \/ nonempty(story_web[id].errors)
       \/ ~has_text(story[id]["title"])
       \/ ~has_text(story[id]["body"])
       \/ ~nonempty(story_web[id].authors)
       \/ ~nonempty(story_web[id].image)

\* all four enriched columns of the story have a value
complete(id) ==
    /\ has_text(story[id]["title"])
    /\ has_text(story[id]["body"])
    /\ nonempty(story_web[id].authors)
    /\ nonempty(story_web[id].image)

\* the stories with the condition, and those of them before id
candidates == {id \in DOMAIN story : needs_enrichment(id)}
candidates_before(id) == {c \in candidates : c < id}

\* a run of enrich.py selects its stories in this step
selecting == enrich_run.pc = "idle" /\ enrich_run'.pc = "loop"

\* C29 as stated: a run selects exactly the stories with the condition, so
\* it selects every story whose last attempt failed and no story whose last
\* attempt succeeded.
C29_AsStated ==
    [][selecting =>
        \A id \in DOMAIN story :
            LET selected == \E i \in DOMAIN enrich_run'.stories : enrich_run'.stories[i] = id
            IN  /\ selected <=> needs_enrichment(id)
                /\ enrich_run.last[id] = "failed" => selected
                /\ enrich_run.last[id] = "ok" => ~selected]_vars

\* C29: a run selects, in id order, the stories with the condition, all of
\* them without a limit and the first limit of them with one. A story whose
\* last attempt failed has the condition in every later run, so it is selected
\* unless limit stories with the condition precede it; a story whose last
\* attempt succeeded is skipped by every later run if the four columns all have
\* a value, and has the condition again if one of them is still empty.
C29_SelectionAcrossRuns ==
    [][selecting =>
        LET sel == enrich_run'.stories
            limit == enrich_run'.limit
            selected(id) == \E i \in DOMAIN sel : sel[i] = id
            within(id) == limit = 0 \/ Cardinality(candidates_before(id)) < limit
        IN  /\ \A i, j \in DOMAIN sel : i < j => sel[i] < sel[j]
            /\ \A id \in DOMAIN story :
                  /\ selected(id) <=> needs_enrichment(id) /\ within(id)
                  /\ enrich_run.last[id] = "failed" =>
                        needs_enrichment(id) /\ (selected(id) <=> within(id))
                  /\ enrich_run.last[id] = "ok" /\ complete(id) => ~selected(id)
                  /\ enrich_run.last[id] = "ok" /\ ~complete(id) =>
                        needs_enrichment(id) /\ (selected(id) <=> within(id))]_vars

\* a later run has selected the story whose last attempt failed and has
\* skipped the one that a success had completed
C29_Witness ==
    /\ Len(story) = 2
    /\ enrich_run.pc = "loop"
    /\ enrich_run.idx = 1
    /\ enrich_run.last[1] = "ok"
    /\ complete(1)
    /\ enrich_run.last[2] = "failed"
    /\ enrich_run.stories = <<2>>

\* a later run with a limit has left out a story whose last attempt failed
C29_LeftOut ==
    /\ enrich_run.pc = "loop"
    /\ enrich_run.idx = 1
    /\ \E id \in DOMAIN story :
          /\ enrich_run.last[id] = "failed"
          /\ \A i \in DOMAIN enrich_run.stories : enrich_run.stories[i] # id

\* a later run has selected a story again whose last attempt succeeded
C29_SelectedAgain ==
    /\ enrich_run.pc = "loop"
    /\ enrich_run.idx = 1
    /\ \E i \in DOMAIN enrich_run.stories :
          enrich_run.last[enrich_run.stories[i]] = "ok"


(***************************************************************************)
(* C30                                                                     *)
(***************************************************************************)
\* the attempts of the call so far all failed
all_failed == \A k \in DOMAIN fetch.log : fetch.log[k].outcome = "error"

\* what holds of a call with max_retries >= 1 at any moment
fetch_attempts_bounded ==
    fetch.status # "none" /\ fetch.max_retries >= 1 =>
        LET n == Len(fetch.log)
        IN  /\ fetch.arg = "default" => fetch.max_retries = 3
            /\ n <= fetch.max_retries
            /\ \A k \in 1..n :
                  /\ fetch.log[k].attempt = k
                  /\ fetch.log[k].timeout = 30000 + (k - 1) * 15000
            /\ \A k \in 1..(n - 1) : fetch.log[k].outcome = "error"
            /\ fetch.status = "returned" =>
                  /\ n >= 1
                  /\ fetch.log[n].outcome = "html"
                  /\ fetch.result = fetch.log[n].value
            /\ fetch.status = "raised" <=>
                  n = fetch.max_retries /\ all_failed
            /\ fetch.status = "raised" => fetch.result = fetch.log[n].value
            /\ fetch.status = "running" => n < fetch.max_retries /\ all_failed

\* C30: a call of fetch_post_page with max_retries >= 1 (3 by default) makes
\* at most max_retries attempts, attempt k with a navigation timeout of
\* 30000 + (k-1)*15000 ms; it returns the html of the first attempt that
\* succeeds and makes no attempt after it, goes on after every failed attempt
\* but the last, raises the error of the last attempt exactly when all
\* max_retries attempts failed, and always ends.
C30_FetchRetries ==
    /\ []fetch_attempts_bounded
    /\ [][fetch.status \in {"returned", "raised"} /\ fetch'.log # <<>> =>
            fetch' = fetch]_vars
    /\ [][fetch.status = "running" /\ fetch.max_retries >= 1 /\ fetch' # fetch =>
            /\ Len(fetch'.log) = Len(fetch.log) + 1
            /\ fetch'.status = "running" <=>
                  /\ fetch'.log[Len(fetch'.log)].outcome = "error"
                  /\ Len(fetch'.log) < fetch.max_retries]_vars
    /\ (fetch.status = "running" /\ fetch.max_retries >= 1)
          ~> (fetch.status \in {"returned", "raised"})

\* a call with the default has returned the html of its third attempt, which
\* had 60 s to load the page
C30_Witness ==
    /\ fetch.arg = "default"
    /\ fetch.status = "returned"
    /\ Len(fetch.log) = 3
    /\ fetch.log[3].timeout = 60000
    /\ fetch.result = fetch.log[3].value
    /\ fetch.result \in Htmls

\* a call has raised the error of its last attempt after max_retries failures
C30_Raised ==
    /\ fetch.status = "raised"
    /\ fetch.max_retries = 2
    /\ Len(fetch.log) = 2
    /\ fetch.log[1].value # fetch.log[2].value
    /\ fetch.result = fetch.log[2].value

====
